---- MODULE Spec2Model ----
(***************************************************************************)
(* The MutualFundCalculator screen of finance-app (src/unnamed/part_000):  *)
(* three text fields, the calculateSIP handler, the formatCurrency helper  *)
(* and the conditionally rendered results section.                         *)
(*                                                                         *)
(* Numbers.  A JavaScript number is modelled as a record [k, n, d]:        *)
(*   k = "NaN"                 NaN                                         *)
(*   k = "Inf", n = 1 / -1     +Infinity / -Infinity                       *)
(*   k = "Num", n/d            the finite value n/d, in lowest terms, d>0  *)
(* Finite arithmetic is exact rational arithmetic.  The texts the model    *)
(* types into the fields are chosen so that every value calculateSIP       *)
(* computes from them is a rational an IEEE double holds exactly (dyadic   *)
(* or small integers) or whose rounding does not change a comparison the   *)
(* properties make; Math.pow with a fractional exponent is taken only of   *)
(* perfect powers.  The special values follow IEEE 754 and ECMAScript.     *)
(* Negative zero and the exponent part of a numeric literal ("1e3") do     *)
(* not occur in the texts of the model.                                    *)
(*                                                                         *)
(* Strings are sequences of one-character strings.                         *)
(***************************************************************************)
EXTENDS Integers, Sequences, FiniteSets, TLC

\* ------------------------------------------------------------------------
\* JavaScript numbers
\* ------------------------------------------------------------------------

\* the value null of "number | null"
Null == [k |-> "null", n |-> 0, d |-> 1]

NaN == [k |-> "NaN", n |-> 0, d |-> 1]

PosInf == [k |-> "Inf", n |-> 1, d |-> 1]

NegInf == [k |-> "Inf", n |-> -1, d |-> 1]

Abs(a) == IF a < 0 THEN -a ELSE a

RECURSIVE Gcd(_, _)
Gcd(a, b) == IF b = 0 THEN a ELSE Gcd(b, a % b)

\* the finite number n/d (d # 0), in lowest terms with a positive denominator
Num(n, d) ==
    LET g == Gcd(Abs(n), Abs(d))
        s == IF d < 0 THEN -1 ELSE 1
    IN  [k |-> "Num", n |-> (s * n) \div g, d |-> (s * d) \div g]

Whole(n) == [k |-> "Num", n |-> n, d |-> 1]

IsNum(x) == x.k = "Num"

IsInf(x) == x.k = "Inf"

\* the global isNaN, applied to a number
isNaN(x) == x.k = "NaN"

\* -1, 0 or 1 for a number that is not NaN
Sign(x) == IF x.n < 0 THEN -1 ELSE IF x.n > 0 THEN 1 ELSE 0

\* a < b; false when either is NaN
Lt(a, b) ==
    IF isNaN(a) \/ isNaN(b) THEN FALSE
    ELSE IF IsInf(a) THEN a.n < 0 /\ a # b
    ELSE IF IsInf(b) THEN b.n > 0
    ELSE a.n * b.d < b.n * a.d

\* a <= b; false when either is NaN
Le(a, b) == IF isNaN(a) \/ isNaN(b) THEN FALSE ELSE a = b \/ Lt(a, b)

Neg(a) == IF IsNum(a) THEN Num(-a.n, a.d) ELSE IF IsInf(a) THEN [a EXCEPT !.n = -a.n] ELSE a

\* a + b
Add(a, b) ==
    IF isNaN(a) \/ isNaN(b) THEN NaN
    ELSE IF IsInf(a) /\ IsInf(b) THEN (IF a = b THEN a ELSE NaN)
    ELSE IF IsInf(a) THEN a
    ELSE IF IsInf(b) THEN b
    ELSE LET g == Gcd(a.d, b.d)
         IN  Num(a.n * (b.d \div g) + b.n * (a.d \div g), (a.d \div g) * b.d)

\* a - b
Sub(a, b) == Add(a, Neg(b))

\* a * b
Mul(a, b) ==
    IF isNaN(a) \/ isNaN(b) THEN NaN
    ELSE IF IsInf(a) \/ IsInf(b)
         THEN (IF Sign(a) * Sign(b) = 0 THEN NaN
               ELSE IF Sign(a) * Sign(b) > 0 THEN PosInf ELSE NegInf)
    ELSE LET g1 == Gcd(Abs(a.n), b.d)
             g2 == Gcd(Abs(b.n), a.d)
         IN  Num((a.n \div g1) * (b.n \div g2), (a.d \div g2) * (b.d \div g1))

\* a / b, the zero divisor being +0
Div(a, b) ==
    IF isNaN(a) \/ isNaN(b) THEN NaN
    ELSE IF IsInf(a) /\ IsInf(b) THEN NaN
    ELSE IF IsInf(a) THEN (IF Sign(b) < 0 THEN Neg(a) ELSE a)
    ELSE IF IsInf(b) THEN Whole(0)
    ELSE IF b.n = 0
         THEN (IF a.n = 0 THEN NaN ELSE IF a.n > 0 THEN PosInf ELSE NegInf)
    ELSE Mul(a, Num(b.d, b.n))

RECURSIVE IntPow(_, _)
IntPow(b, e) == IF e = 0 THEN 1 ELSE b * IntPow(b, e - 1)

\* the positive integer r with r^q = a, for a perfect q-th power a
IntRoot(a, q) == CHOOSE r \in 1..a : IntPow(r, q) = a

\* Math.pow(b, e) for b >= 0
pow(b, e) ==
    IF isNaN(e) THEN NaN
    ELSE IF IsNum(e) /\ e.n = 0 THEN Whole(1)
    ELSE IF isNaN(b) THEN NaN
    ELSE IF IsInf(e)
         THEN (IF b = Whole(1) THEN NaN
               ELSE IF (e.n > 0) = Lt(Whole(1), b) THEN PosInf ELSE Whole(0))
    ELSE IF IsInf(b) THEN (IF e.n > 0 THEN PosInf ELSE Whole(0))
    ELSE IF b.n = 0 THEN (IF e.n > 0 THEN Whole(0) ELSE PosInf)
    ELSE LET rn == IF e.d = 1 THEN b.n ELSE IntRoot(b.n, e.d)
             rd == IF e.d = 1 THEN b.d ELSE IntRoot(b.d, e.d)
             pn == IntPow(rn, Abs(e.n))
             pd == IntPow(rd, Abs(e.n))
         IN  IF e.n > 0 THEN Num(pn, pd) ELSE Num(pd, pn)

\* ------------------------------------------------------------------------
\* Strings and parseFloat
\* ------------------------------------------------------------------------

Digit == {"0", "1", "2", "3", "4", "5", "6", "7", "8", "9"}

DigitVal(c) ==
    CASE c = "0" -> 0 [] c = "1" -> 1 [] c = "2" -> 2 [] c = "3" -> 3
      [] c = "4" -> 4 [] c = "5" -> 5 [] c = "6" -> 6 [] c = "7" -> 7
      [] c = "8" -> 8 [] c = "9" -> 9

DigitChar(v) == CHOOSE c \in Digit : DigitVal(c) = v

InfinityText == <<"I", "n", "f", "i", "n", "i", "t", "y">>

IsPrefix(p, s) == Len(p) <= Len(s) /\ SubSeq(s, 1, Len(p)) = p

Drop(s, k) == SubSeq(s, k + 1, Len(s))

\* the text without its leading white space
RECURSIVE TrimStart(_)
TrimStart(s) == IF s # <<>> /\ Head(s) = " " THEN TrimStart(Tail(s)) ELSE s

\* the longest prefix of digits
RECURSIVE DigitRun(_)
DigitRun(s) ==
    IF s # <<>> /\ Head(s) \in Digit THEN <<Head(s)>> \o DigitRun(Tail(s)) ELSE <<>>

\* the value of a sequence of digits (0 for none)
RECURSIVE DigitsVal(_)
DigitsVal(s) ==
    IF s = <<>> THEN 0 ELSE 10 * DigitsVal(SubSeq(s, 1, Len(s) - 1)) + DigitVal(s[Len(s)])

\* the global parseFloat: the value of the longest prefix of the trimmed text
\* that is a decimal literal (sign, Infinity or digits with a fraction), NaN
\* when there is none
parseFloat(s) ==
    LET t    == TrimStart(s)
        sgn  == IF t # <<>> /\ Head(t) = "-" THEN -1 ELSE 1
        u    == IF t # <<>> /\ Head(t) \in {"+", "-"} THEN Tail(t) ELSE t
        ip   == DigitRun(u)
        rest == Drop(u, Len(ip))
        fp   == IF rest # <<>> /\ Head(rest) = "." THEN DigitRun(Tail(rest)) ELSE <<>>
        sc   == IntPow(10, Len(fp))
    IN  IF IsPrefix(InfinityText, u) THEN (IF sgn < 0 THEN NegInf ELSE PosInf)
        ELSE IF ip = <<>> /\ fp = <<>> THEN NaN
        ELSE Num(sgn * (DigitsVal(ip) * sc + DigitsVal(fp)), sc)

\* ------------------------------------------------------------------------
\* The texts typed into the fields
\* ------------------------------------------------------------------------

\* texts for the monthly investment field:
\* "", "abc", "0", "-5", "1000", "5,000", "12abc", "Rs.5" with the rupee sign, "Infinity"
MonthlyTexts ==
    { <<>>, <<"a", "b", "c">>, <<"0">>, <<"-", "5">>, <<"1", "0", "0", "0">>,
      <<"5", ",", "0", "0", "0">>, <<"1", "2", "a", "b", "c">>, <<"₹", "5">>,
      InfinityText }

\* texts for the annual rate field: "", "-1", "0", "18000", "18000%", "Infinity"
\* (18000 % a year is 15 a month, so that 1 + i = 16 has exact roots)
RateTexts ==
    { <<>>, <<"-", "1">>, <<"0">>, <<"1", "8", "0", "0", "0">>,
      <<"1", "8", "0", "0", "0", "%">>, InfinityText }

\* texts for the tenure field: "", "0", "0.25", "0.0625", "0.25y", "Infinity"
\* (3 months, 3/4 of a month, and 3 months with a unit typed after it)
TenureTexts ==
    { <<>>, <<"0">>, <<"0", ".", "2", "5">>, <<"0", ".", "0", "6", "2", "5">>,
      <<"0", ".", "2", "5", "y">>, InfinityText }

\* how many outcomes of calculateSIP the observation log keeps
HistoryLen == 2

\* ------------------------------------------------------------------------
\* The component's state
\* ------------------------------------------------------------------------

VARIABLES
    monthlyInvestment,  \* useState<string>('')
    annualRate,         \* useState<string>('')
    tenureYears,        \* useState<string>('')
    futureValue,        \* useState<number | null>(null)
    totalInvested,      \* useState<number | null>(null)
    estimatedReturns,   \* useState<number | null>(null)
    isCalculated,       \* useState<boolean>(false)
    alert,              \* the modal alert on screen, NoAlert when none
    keyboardVisible,    \* the soft keyboard
    log                 \* what the last HistoryLen presses of the button ended in

vars == <<monthlyInvestment, annualRate, tenureYears, futureValue, totalInvested,
          estimatedReturns, isCalculated, alert, keyboardVisible, log>>

inputs == <<monthlyInvestment, annualRate, tenureYears>>

result == <<futureValue, totalInvested, estimatedReturns, isCalculated>>

NoAlert == <<>>

InvalidInputAlert ==
    <<"Invalid Input", "Please enter valid positive numbers for all fields.">>

\* the last HistoryLen outcomes, the newest last
Logged(outcome) ==
    LET l == Append(log, outcome)
    IN  IF Len(l) > HistoryLen THEN Tail(l) ELSE l

Init ==
    /\ monthlyInvestment = <<>>
    /\ annualRate = <<>>
    /\ tenureYears = <<>>
    /\ futureValue = Null
    /\ totalInvested = Null
    /\ estimatedReturns = Null
    /\ isCalculated = FALSE
    /\ alert = NoAlert
    /\ keyboardVisible = FALSE
    /\ log = <<>>

\* ------------------------------------------------------------------------
\* calculateSIP
\* ------------------------------------------------------------------------

\* the validation with "P < 0" written for "P <= 0"
InvalidInputLax(P, rate, years) ==
    \/ isNaN(P) \/ Lt(P, Whole(0))
    \/ isNaN(rate) \/ Lt(rate, Whole(0))
    \/ isNaN(years) \/ Le(years, Whole(0))

\* the validation of the parsed inputs
InvalidInput(P, rate, years) ==
    \/ isNaN(P) \/ Le(P, Whole(0))
    \/ isNaN(rate) \/ Lt(rate, Whole(0))
    \/ isNaN(years) \/ Le(years, Whole(0))

\* monthly interest rate
MonthlyRate(rate) == Div(Div(rate, Whole(12)), Whole(100))

\* total number of months
Periods(years) == Mul(years, Whole(12))

calculatedFV(P, i, n) == Mul(P, Div(Sub(pow(Add(Whole(1), i), n), Whole(1)), i))

calculatedTotalInvested(P, n) == Mul(P, n)

calculatedEstimatedReturns(fv, invested) == Sub(fv, invested)

\* the failure path without its four setters: the alert over the old result
RejectInputsKeepingResult ==
    /\ alert' = InvalidInputAlert
    /\ UNCHANGED result

\* the failure path without setFutureValue(null)
RejectInputsPartial ==
    /\ alert' = InvalidInputAlert
    /\ isCalculated' = FALSE
    /\ futureValue' = futureValue
    /\ totalInvested' = Null
    /\ estimatedReturns' = Null

\* the failure path: the alert, and the result state cleared
RejectInputs ==
    /\ alert' = InvalidInputAlert
    /\ isCalculated' = FALSE
    /\ futureValue' = Null
    /\ totalInvested' = Null
    /\ estimatedReturns' = Null

\* the success path adding the new future value to the one already stored
StoreResultAccumulating(fv, invested, returns) ==
    /\ futureValue' = IF futureValue = Null THEN fv ELSE Add(futureValue, fv)
    /\ totalInvested' = invested
    /\ estimatedReturns' = returns
    /\ isCalculated' = TRUE
    /\ alert' = alert

\* the success path: the three setters and setIsCalculated(true)
StoreResult(fv, invested, returns) ==
    /\ futureValue' = fv
    /\ totalInvested' = invested
    /\ estimatedReturns' = returns
    /\ isCalculated' = TRUE
    /\ alert' = alert

\* the Calculate button's onPress
calculateSIP ==
    /\ alert = NoAlert
    /\ keyboardVisible' = FALSE
    /\ LET P     == parseFloat(monthlyInvestment)
           rate  == parseFloat(annualRate)
           years == parseFloat(tenureYears)
           i     == MonthlyRate(rate)
           n     == Periods(years)
           fv    == calculatedFV(P, i, n)
           inv   == calculatedTotalInvested(P, n)
       IN  IF InvalidInput(P, rate, years)
           THEN RejectInputs /\ log' = Logged("alert")
           ELSE /\ StoreResult(fv, inv, calculatedEstimatedReturns(fv, inv))
                /\ log' = Logged("shown")
    /\ UNCHANGED inputs

\* ------------------------------------------------------------------------
\* The other handlers
\* ------------------------------------------------------------------------

\* onChangeText of the first field
setMonthlyInvestment(text) ==
    /\ alert = NoAlert
    /\ monthlyInvestment' = text
    /\ keyboardVisible' = TRUE
    /\ UNCHANGED <<annualRate, tenureYears, result, alert, log>>

\* onChangeText of the second field, hiding the result on every keystroke
setAnnualRateResetting(text) ==
    /\ alert = NoAlert
    /\ annualRate' = text
    /\ keyboardVisible' = TRUE
    /\ isCalculated' = FALSE
    /\ UNCHANGED <<monthlyInvestment, tenureYears, futureValue, totalInvested,
                   estimatedReturns, alert, log>>

\* onChangeText of the second field
setAnnualRate(text) ==
    /\ alert = NoAlert
    /\ annualRate' = text
    /\ keyboardVisible' = TRUE
    /\ UNCHANGED <<monthlyInvestment, tenureYears, result, alert, log>>

\* onChangeText of the third field
setTenureYears(text) ==
    /\ alert = NoAlert
    /\ tenureYears' = text
    /\ keyboardVisible' = TRUE
    /\ UNCHANGED <<monthlyInvestment, annualRate, result, alert, log>>

\* a tap outside the fields
handleDismissKeyboard ==
    /\ alert = NoAlert
    /\ keyboardVisible
    /\ keyboardVisible' = FALSE
    /\ UNCHANGED <<inputs, result, alert, log>>

\* the user closes the modal alert
DismissAlert ==
    /\ alert # NoAlert
    /\ alert' = NoAlert
    /\ UNCHANGED <<inputs, result, keyboardVisible, log>>

EditMonthly == \E text \in MonthlyTexts : setMonthlyInvestment(text)

EditRate == \E text \in RateTexts : setAnnualRate(text)

EditTenure == \E text \in TenureTexts : setTenureYears(text)

Next ==
    \/ EditMonthly
    \/ EditRate
    \/ EditTenure
    \/ calculateSIP
    \/ handleDismissKeyboard
    \/ DismissAlert

Spec == Init /\ [][Next]_vars

\* ------------------------------------------------------------------------
\* formatCurrency and the results section
\* ------------------------------------------------------------------------

\* the decimal digits of a natural number
RECURSIVE ToDigits(_)
ToDigits(v) == IF v < 10 THEN <<DigitChar(v)>> ELSE ToDigits(v \div 10) \o <<DigitChar(v % 10)>>

\* |x| in hundredths, rounded to the nearest, the larger of two equally near
Hundredths(x) ==
    100 * (Abs(x.n) \div x.d) + (200 * (Abs(x.n) % x.d) + x.d) \div (2 * x.d)

\* Number.prototype.toFixed(2)
toFixed2(x) ==
    IF isNaN(x) THEN <<"N", "a", "N">>
    ELSE IF IsInf(x) THEN (IF x.n < 0 THEN <<"-">> ELSE <<>>) \o InfinityText
    ELSE LET c == Hundredths(x)
             f == ToDigits(c % 100)
         IN  (IF x.n < 0 THEN <<"-">> ELSE <<>>) \o ToDigits(c \div 100) \o <<".">>
               \o (IF Len(f) = 1 THEN <<"0">> ELSE <<>>) \o f

\* \w of a regular expression, over the characters toFixed produces
WordChar(c) == c \notin {".", "-", "+", ",", " "}

\* the number of digits of s from position p on, up to the first other character
RECURSIVE DigitsFrom(_, _)
DigitsFrom(s, p) ==
    IF p <= Len(s) /\ s[p] \in Digit THEN 1 + DigitsFrom(s, p + 1) ELSE 0

\* /\B(?=(\d{3})+(?!\d))/ matches between s[p] and s[p+1]
GroupBoundary(s, p) ==
    /\ 1 <= p /\ p < Len(s)
    /\ WordChar(s[p]) /\ WordChar(s[p + 1])
    /\ DigitsFrom(s, p + 1) > 0
    /\ DigitsFrom(s, p + 1) % 3 = 0

\* s.replace(/\B(?=(\d{3})+(?!\d))/g, ','), from position p on
RECURSIVE ReplaceFrom(_, _)
ReplaceFrom(s, p) ==
    IF p > Len(s) THEN <<>>
    ELSE <<s[p]>> \o (IF GroupBoundary(s, p) THEN <<",">> ELSE <<>>) \o ReplaceFrom(s, p + 1)

ZeroAmount == <<"₹", " ", "0", ".", "0", "0">>

formatCurrency(value) ==
    IF value = Null \/ isNaN(value) THEN ZeroAmount
    ELSE <<"₹", " ">> \o ReplaceFrom(toFixed2(value), 1)

\* the guard of the results section
ResultsRendered ==
    isCalculated /\ futureValue # Null /\ totalInvested # Null /\ estimatedReturns # Null

\* the three amounts on screen: invested, returns, future value
ResultsSection ==
    IF ResultsRendered
    THEN <<formatCurrency(totalInvested), formatCurrency(estimatedReturns),
           formatCurrency(futureValue)>>
    ELSE <<>>

\* ------------------------------------------------------------------------
\* Properties
\* ------------------------------------------------------------------------

Zero == Whole(0)

\* a >= b; false when either is NaN
Ge(a, b) == Le(b, a)

\* the parsed inputs of the current state
InP == parseFloat(monthlyInvestment)

InRate == parseFloat(annualRate)

InYears == parseFloat(tenureYears)

\* the text starts (after white space and a sign) with no number at all
NonNumeric(s) ==
    LET t == TrimStart(s)
        u == IF t # <<>> /\ Head(t) \in {"+", "-"} THEN Tail(t) ELSE t
    IN  ~ \/ IsPrefix(InfinityText, u)
          \/ u # <<>> /\ Head(u) \in Digit
          \/ Len(u) >= 2 /\ Head(u) = "." /\ u[2] \in Digit

\* the whole text is a decimal numeral: an optional sign, digits, and at most
\* one point with a digit on at least one side of it
WholeDecimal(s) ==
    LET u  == IF s # <<>> /\ Head(s) \in {"+", "-"} THEN Tail(s) ELSE s
        ip == DigitRun(u)
        r  == Drop(u, Len(ip))
        fp == IF r # <<>> /\ Head(r) = "." THEN DigitRun(Tail(r)) ELSE <<>>
    IN  /\ Len(ip) + Len(fp) > 0
        /\ \/ r = <<>>
           \/ Head(r) = "." /\ Len(r) = 1 + Len(fp)

\* the inputs the contract rejects
RejectedInputs ==
    \/ NonNumeric(monthlyInvestment) \/ NonNumeric(annualRate) \/ NonNumeric(tenureYears)
    \/ Le(InP, Zero)
    \/ Lt(InRate, Zero)
    \/ Le(InYears, Zero)

\* the inputs the contract accepts
AcceptedInputs == Lt(Zero, InP) /\ Le(Zero, InRate) /\ Lt(Zero, InYears)

AlertRaised == alert = InvalidInputAlert

NoResult ==
    /\ ~isCalculated
    /\ futureValue = Null /\ totalInvested = Null /\ estimatedReturns = Null

\* the outcome of the press before the last one
PreviousOutcome == IF Len(log) >= 2 THEN log[Len(log) - 1] ELSE "none"

LastOutcome == IF Len(log) >= 1 THEN log[Len(log)] ELSE "none"

\* the result the contract derives from the current inputs
ContractResult ==
    LET i  == Div(Div(InRate, Whole(12)), Whole(100))
        n  == Mul(InYears, Whole(12))
        fv == Div(Mul(InP, Sub(pow(Add(Whole(1), i), n), Whole(1))), i)
    IN  <<fv, Mul(InP, n), Sub(fv, Mul(InP, n))>>

\* C1: with an accepted triple of rate 0, calculateSIP stores
\* futureValue = totalInvested = P * years * 12 and estimatedReturns = 0
C1_ZeroRate ==
    [][(calculateSIP /\ AcceptedInputs /\ InRate = Zero)
         => /\ futureValue' = Mul(Mul(InP, InYears), Whole(12))
            /\ totalInvested' = Mul(Mul(InP, InYears), Whole(12))
            /\ estimatedReturns' = Zero]_vars

\* C2: calculateSIP takes the invalid-input path (the alert, no result) exactly
\* when a field is empty or non-numeric, P <= 0, rate < 0 or years <= 0; the
\* computation is reached only with P > 0, rate >= 0 and years > 0
C2_InvalidPath ==
    [][calculateSIP
         => /\ RejectedInputs => (AlertRaised' /\ ~isCalculated')
            /\ isCalculated' => (AcceptedInputs /\ ~RejectedInputs /\ ~AlertRaised')]_vars

\* the alert is up for a monthly contribution <= 0 between two valid fields
C2_Witness ==
    /\ AlertRaised
    /\ Le(InP, Zero)
    /\ Le(Zero, InRate) /\ Lt(Zero, InYears)

\* C3: a field that is not, as a whole, the decimal numeral of a finite number
\* makes calculateSIP take the invalid-input path
C3_WholeString ==
    [][(calculateSIP /\ \E f \in {monthlyInvestment, annualRate, tenureYears} :
                            ~WholeDecimal(f))
         => (AlertRaised' /\ ~isCalculated')]_vars

\* C4: calculateSIP on invalid inputs raises the alert and leaves no result,
\* whatever was shown before
C4_InvalidClears ==
    [][(calculateSIP /\ RejectedInputs)
         => (AlertRaised' /\ NoResult' /\ ~ResultsRendered' /\ ResultsSection' = <<>>)]_vars

\* a result was shown, and the next press ended in the alert and no result
C4_Witness ==
    /\ PreviousOutcome = "shown" /\ LastOutcome = "alert"
    /\ AlertRaised /\ RejectedInputs
    /\ NoResult /\ ResultsSection = <<>>

\* C5: the stored result of an accepted triple has futureValue >= totalInvested
C5_NonNegativeReturns ==
    isCalculated => (Ge(futureValue, totalInvested) /\ ~Lt(estimatedReturns, Zero))

\* C6: with an accepted triple of rate > 0, calculateSIP stores
\* futureValue = P * ((1 + i)^n - 1) / i, totalInvested = P * n and
\* estimatedReturns = futureValue - totalInvested, and
\* futureValue = totalInvested + estimatedReturns
C6_Formula ==
    [][(calculateSIP /\ AcceptedInputs /\ Lt(Zero, InRate))
         => /\ <<futureValue', totalInvested', estimatedReturns'>> = ContractResult
            /\ futureValue' = Add(totalInvested', estimatedReturns')]_vars

\* C7: calculateSIP on valid inputs ends with the result section rendered and a
\* result that is a function of the current inputs alone; pressed again on the
\* same inputs it stores the same result
C7_FreshResult ==
    [][(calculateSIP /\ AcceptedInputs)
         => /\ isCalculated' /\ ResultsRendered' /\ ~AlertRaised'
            /\ <<futureValue', totalInvested', estimatedReturns'>> = ContractResult
            /\ (isCalculated /\ <<futureValue, totalInvested, estimatedReturns>> = ContractResult)
                 => result' = result]_vars

\* a result is shown after two presses in a row that both ended in a result
C7_Witness ==
    /\ PreviousOutcome = "shown" /\ LastOutcome = "shown"
    /\ AcceptedInputs /\ ResultsRendered
    /\ <<futureValue, totalInvested, estimatedReturns>> = ContractResult
    /\ IsNum(futureValue)

\* C8: an edit changes one field's text and nothing of the result state; the
\* result state changes only in calculateSIP
C8_EditFrame ==
    [][/\ inputs' # inputs
          => /\ result' = result
             /\ Cardinality({k \in 1..3 : inputs'[k] # inputs[k]}) = 1
       /\ result' # result => calculateSIP]_vars

\* a result stays on screen over inputs edited into ones that would be rejected
C8_Witness == ResultsRendered /\ RejectedInputs /\ IsNum(futureValue) /\ ~AlertRaised

\* C9: formatCurrency gives the zero amount for null and for every non-finite
\* number, and for a finite number its value to two decimals, grouped by threes
C9_Format ==
    \A v \in {futureValue, totalInvested, estimatedReturns} :
        LET s == formatCurrency(v)
            a == Drop(s, 2)
            m == IF a # <<>> /\ Head(a) = "-" THEN Tail(a) ELSE a
            g == DigitRun(m)
        IN  IF ~IsNum(v) THEN s = ZeroAmount
            ELSE /\ SubSeq(s, 1, 2) = <<"₹", " ">>
                 /\ Len(m) >= 4
                 /\ m[Len(m) - 2] = "."
                 /\ \A k \in 1..(Len(m) - 3) :
                       IF (Len(m) - 2 - k) % 4 = 0 THEN m[k] = "," ELSE m[k] \in Digit
                 /\ Len(g) \in 1..3
                 /\ {m[Len(m) - 1], m[Len(m)]} \subseteq Digit
                 /\ DigitsVal(SelectSeq(m, LAMBDA c : c \in Digit)) = Hundredths(v)
                 /\ (Head(a) = "-") = (v.n < 0)

\* C10: the result state is never partly populated, and the result section is
\* rendered exactly when isCalculated
C10_AllOrNothing ==
    /\ \/ NoResult
       \/ /\ isCalculated
          /\ futureValue # Null /\ totalInvested # Null /\ estimatedReturns # Null
    /\ ResultsRendered <=> isCalculated

\* a shown result was cleared by a press that ended in the alert, and edited since
C10_Witness ==
    /\ PreviousOutcome = "shown" /\ LastOutcome = "alert"
    /\ ~AlertRaised /\ NoResult /\ AcceptedInputs

====
